---------------------------- MODULE Spec2Model ----------------------------
(***************************************************************************)
(* DeliveryTaskCreator (src/src/delivery.ts and its earlier revision       *)
(* src/unnamed/part_000): a builder of Cloud Tasks HTTP task descriptors   *)
(* and the eight operations that submit one through the module-level       *)
(* CloudTasksClient.                                                       *)
(*                                                                         *)
(* JavaScript strings that get serialised (payload keys and values, the    *)
(* JSON text, the base64 body) are sequences of UTF-16 code units; the     *)
(* strings the code only concatenates (project, queue, url) are TLA+       *)
(* strings.                                                                *)
(***************************************************************************)
EXTENDS Integers, Sequences, FiniteSets, Bags, TLC

(***************************************************************************)
(* JavaScript values a payload is made of.                                 *)
(***************************************************************************)
Str(s)  == [t |-> "str", s |-> s]
Num(n)  == [t |-> "num", n |-> n]
Bool(b) == [t |-> "bool", b |-> b]
Arr(a)  == [t |-> "arr", a |-> a]
\* an object: its own enumerable properties, in property order
Obj(m)  == [t |-> "obj", m |-> m]
Prop(k, v) == [k |-> k, v |-> v]
Null      == [t |-> "null"]
Undefined == [t |-> "undefined"]
NaN       == [t |-> "NaN"]
Infinity  == [t |-> "Infinity"]
BigInt    == [t |-> "bigint"]
\* an object that refers to itself (a response or error object put in a log)
Circular  == [t |-> "circular"]

RECURSIVE Concat(_)
\* the concatenation of a sequence of sequences
Concat(ss) ==
  IF Len(ss) = 0 THEN <<>>
  ELSE IF Len(ss) = 1 THEN ss[1]
  ELSE LET h == Len(ss) \div 2 IN
       Concat(SubSeq(ss, 1, h)) \o Concat(SubSeq(ss, h + 1, Len(ss)))

\* the sequences of ss separated by commas (code unit 44)
Join(ss) ==
  IF Len(ss) = 0 THEN <<>>
  ELSE Concat([i \in 1..(2 * Len(ss) - 1) |->
                 IF i % 2 = 1 THEN ss[(i + 1) \div 2] ELSE <<44>>])

(***************************************************************************)
(* JSON.stringify (ECMA-262 SerializeJSONProperty, QuoteJSONString).       *)
(***************************************************************************)
HexDigit(d) == IF d < 10 THEN 48 + d ELSE 87 + d

UnicodeEscape(c) ==
  <<92, 117, HexDigit(c \div 4096), HexDigit((c \div 256) % 16),
    HexDigit((c \div 16) % 16), HexDigit(c % 16)>>

IsHighSurrogate(c) == c >= 55296 /\ c <= 56319
IsLowSurrogate(c)  == c >= 56320 /\ c <= 57343

\* the escape of code unit s[i] inside a JSON string literal
QuoteChar(s, i) ==
  LET c == s[i] IN
  CASE c = 8  -> <<92, 98>>
    [] c = 9  -> <<92, 116>>
    [] c = 10 -> <<92, 110>>
    [] c = 12 -> <<92, 102>>
    [] c = 13 -> <<92, 114>>
    [] c = 34 -> <<92, 34>>
    [] c = 92 -> <<92, 92>>
    [] c < 32 /\ c \notin {8, 9, 10, 12, 13} -> UnicodeEscape(c)
    [] IsHighSurrogate(c) ->
         IF i < Len(s) /\ IsLowSurrogate(s[i + 1]) THEN <<c>> ELSE UnicodeEscape(c)
    [] IsLowSurrogate(c) ->
         IF i > 1 /\ IsHighSurrogate(s[i - 1]) THEN <<c>> ELSE UnicodeEscape(c)
    [] OTHER -> <<c>>

QuoteJSONString(s) ==
  <<34>> \o Concat([i \in 1..Len(s) |-> QuoteChar(s, i)]) \o <<34>>

RECURSIVE NatToString(_)
NatToString(n) ==
  IF n < 10 THEN <<48 + n>> ELSE NatToString(n \div 10) \o <<48 + (n % 10)>>

\* Number::toString of an integer
NumberToString(n) == IF n < 0 THEN <<45>> \o NatToString(-n) ELSE NatToString(n)

\* the results of SerializeJSONProperty: a JSON text, undefined, or a TypeError
Text(s)  == [k |-> "text", s |-> s]
NoText   == [k |-> "undefined", s |-> <<>>]
Throws   == [k |-> "TypeError", s |-> <<>>]

RECURSIVE SerializeJSONProperty(_)
SerializeJSONProperty(v) ==
  CASE v.t = "null"      -> Text(<<110, 117, 108, 108>>)
    [] v.t = "bool"      -> Text(IF v.b THEN <<116, 114, 117, 101>>
                                 ELSE <<102, 97, 108, 115, 101>>)
    [] v.t = "str"       -> Text(QuoteJSONString(v.s))
    [] v.t = "num"       -> Text(NumberToString(v.n))
    [] v.t \in {"NaN", "Infinity"} -> Text(<<110, 117, 108, 108>>)
    [] v.t \in {"bigint", "circular"} -> Throws
    [] v.t = "undefined" -> NoText
    [] v.t = "arr" ->
         LET parts == [i \in 1..Len(v.a) |-> SerializeJSONProperty(v.a[i])] IN
         IF \E i \in 1..Len(parts) : parts[i].k = "TypeError" THEN Throws
         ELSE Text(<<91>>
                \o Join([i \in 1..Len(parts) |->
                          IF parts[i].k = "undefined" THEN <<110, 117, 108, 108>>
                          ELSE parts[i].s])
                \o <<93>>)
    [] v.t = "obj" ->
         LET parts == [i \in 1..Len(v.m) |-> SerializeJSONProperty(v.m[i].v)]
             kept  == SelectSeq([i \in 1..Len(parts) |-> i],
                                LAMBDA i : parts[i].k = "text")
         IN
         IF \E i \in 1..Len(parts) : parts[i].k = "TypeError" THEN Throws
         ELSE Text(<<123>>
                \o Join([j \in 1..Len(kept) |->
                          QuoteJSONString(v.m[kept[j]].k) \o <<58>> \o parts[kept[j]].s])
                \o <<125>>)

JSONstringify(value) == SerializeJSONProperty(value)

(***************************************************************************)
(* Buffer.from(string) (UTF-8) and Buffer#toString("base64").              *)
(***************************************************************************)
CodePoint(hi, lo) == 65536 + (hi - 55296) * 1024 + (lo - 56320)

\* Buffer.from(string, "latin1") instead: one byte for each code unit
Utf8Encode_latin1(s, i) == <<s[i] % 256>>

\* the UTF-8 bytes that code unit s[i] contributes
Utf8Encode(s, i) ==
  LET c == s[i] IN
  IF c < 128 THEN <<c>>
  ELSE IF c < 2048 THEN <<192 + (c \div 64), 128 + (c % 64)>>
  ELSE IF IsHighSurrogate(c) /\ i < Len(s) /\ IsLowSurrogate(s[i + 1]) THEN
    LET cp == CodePoint(c, s[i + 1]) IN
    <<240 + (cp \div 262144), 128 + ((cp \div 4096) % 64),
      128 + ((cp \div 64) % 64), 128 + (cp % 64)>>
  ELSE IF IsLowSurrogate(c) /\ i > 1 /\ IsHighSurrogate(s[i - 1]) THEN
    \* the second half of a pair, written with the first
    <<>>
  ELSE IF IsHighSurrogate(c) \/ IsLowSurrogate(c) THEN
    \* a lone surrogate is replaced by U+FFFD
    <<239, 191, 189>>
  ELSE <<224 + (c \div 4096), 128 + ((c \div 64) % 64), 128 + (c % 64)>>

BufferFrom(s) == Concat([i \in 1..Len(s) |-> Utf8Encode(s, i)])

\* the character of the base64 alphabet for a 6-bit value
Base64Char(x) ==
  IF x < 26 THEN 65 + x
  ELSE IF x < 52 THEN 97 + (x - 26)
  ELSE IF x < 62 THEN 48 + (x - 52)
  ELSE IF x = 62 THEN 43 ELSE 47

\* the base64 text of the group of up to three bytes of b that starts at index i
Base64Encode(b, i) ==
  IF i = Len(b) THEN
    LET n == b[i] * 65536 IN
    <<Base64Char(n \div 262144), Base64Char((n \div 4096) % 64), 61, 61>>
  ELSE IF i + 1 = Len(b) THEN
    LET n == b[i] * 65536 + b[i + 1] * 256 IN
    <<Base64Char(n \div 262144), Base64Char((n \div 4096) % 64),
      Base64Char((n \div 64) % 64), 61>>
  ELSE
    LET n == b[i] * 65536 + b[i + 1] * 256 + b[i + 2] IN
    <<Base64Char(n \div 262144), Base64Char((n \div 4096) % 64),
      Base64Char((n \div 64) % 64), Base64Char(n % 64)>>

toStringBase64(buffer) ==
  Concat([g \in 1..((Len(buffer) + 2) \div 3) |-> Base64Encode(buffer, 3 * g - 2)])

(***************************************************************************)
(* What the consumer of a task does with its body:                         *)
(* JSON.parse(Buffer.from(body, "base64").toString("utf8")).               *)
(***************************************************************************)
\* the 6-bit value of a character of the base64 alphabet
Base64Value(c) ==
  IF c >= 65 /\ c <= 90 THEN c - 65
  ELSE IF c >= 97 /\ c <= 122 THEN c - 97 + 26
  ELSE IF c >= 48 /\ c <= 57 THEN c - 48 + 52
  ELSE IF c = 43 THEN 62 ELSE 63

\* the bytes of the group of four characters of the base64 text s at index i
Base64Decode(s, i) ==
  LET pad == IF s[i + 2] = 61 THEN 2 ELSE IF s[i + 3] = 61 THEN 1 ELSE 0
      n == Base64Value(s[i]) * 262144 + Base64Value(s[i + 1]) * 4096
           + (IF pad = 2 THEN 0 ELSE Base64Value(s[i + 2]) * 64)
           + (IF pad >= 1 THEN 0 ELSE Base64Value(s[i + 3]))
  IN
  IF pad = 2 THEN <<n \div 65536>>
  ELSE IF pad = 1 THEN <<n \div 65536, (n \div 256) % 256>>
  ELSE <<n \div 65536, (n \div 256) % 256, n % 256>>

BufferFromBase64(s) ==
  Concat([g \in 1..(Len(s) \div 4) |-> Base64Decode(s, 4 * g - 3)])

\* the code units of the UTF-8 sequence of b whose first byte is b[i]
Utf8Decode(b, i) ==
  LET c == b[i] IN
  IF c < 128 THEN <<c>>
  ELSE IF c < 192 THEN
    \* a continuation byte, read with the sequence's first byte
    <<>>
  ELSE IF c < 224 /\ i + 1 <= Len(b) THEN <<(c - 192) * 64 + (b[i + 1] - 128)>>
  ELSE IF c >= 224 /\ c < 240 /\ i + 2 <= Len(b) THEN
    <<(c - 224) * 4096 + (b[i + 1] - 128) * 64 + (b[i + 2] - 128)>>
  ELSE IF c >= 240 /\ i + 3 <= Len(b) THEN
    LET cp == (c - 240) * 262144 + (b[i + 1] - 128) * 4096
              + (b[i + 2] - 128) * 64 + (b[i + 3] - 128) - 65536
    IN <<55296 + (cp \div 1024), 56320 + (cp % 1024)>>
  ELSE <<65533>>

toStringUtf8(buffer) == Concat([i \in 1..Len(buffer) |-> Utf8Decode(buffer, i)])

(***************************************************************************)
(* JSON.parse (ECMA-404 grammar, integers only, no insignificant white     *)
(* space: JSON.stringify without an indent writes none).                   *)
(***************************************************************************)
\* the code unit at index i, or 0 past the end
At(s, i) == IF i >= 1 /\ i <= Len(s) THEN s[i] ELSE 0

IsDigit(c) == c >= 48 /\ c <= 57

HexValue(c) ==
  IF IsDigit(c) THEN c - 48
  ELSE IF c >= 97 /\ c <= 102 THEN c - 87
  ELSE IF c >= 65 /\ c <= 70 THEN c - 55
  ELSE -1

\* a parse result: the value read and the index after it, or a SyntaxError
Parsed(v, i) == [ok |-> TRUE, v |-> v, i |-> i]
SyntaxError  == [ok |-> FALSE, v |-> Null, i |-> 0]

RECURSIVE ParseDigits(_, _, _)
\* the natural number of the digits of s from index i on, acc read so far
ParseDigits(s, i, acc) ==
  IF IsDigit(At(s, i)) THEN ParseDigits(s, i + 1, acc * 10 + (s[i] - 48))
  ELSE [n |-> acc, i |-> i]

ParseNumber(s, i) ==
  LET neg == At(s, i) = 45
      j   == IF neg THEN i + 1 ELSE i
      d   == ParseDigits(s, j, 0)
  IN
  IF ~IsDigit(At(s, j)) THEN SyntaxError
  ELSE Parsed(Num(IF neg THEN -d.n ELSE d.n), d.i)

RECURSIVE ParseString(_, _, _)
\* the string literal of s whose opening quote is before index i, acc read so far
ParseString(s, i, acc) ==
  LET c == At(s, i) IN
  IF c = 34 THEN Parsed(Str(acc), i + 1)
  ELSE IF c < 32 THEN SyntaxError
  ELSE IF c = 92 THEN
    LET e == At(s, i + 1) IN
    CASE e \in {34, 92, 47} -> ParseString(s, i + 2, Append(acc, e))
      [] e = 98  -> ParseString(s, i + 2, Append(acc, 8))
      [] e = 102 -> ParseString(s, i + 2, Append(acc, 12))
      [] e = 110 -> ParseString(s, i + 2, Append(acc, 10))
      [] e = 114 -> ParseString(s, i + 2, Append(acc, 13))
      [] e = 116 -> ParseString(s, i + 2, Append(acc, 9))
      [] e = 117 ->
           LET h == [k \in 1..4 |-> HexValue(At(s, i + 1 + k))] IN
           IF \E k \in 1..4 : h[k] < 0 THEN SyntaxError
           ELSE ParseString(s, i + 6,
                  Append(acc, h[1] * 4096 + h[2] * 256 + h[3] * 16 + h[4]))
      [] OTHER -> SyntaxError
  ELSE ParseString(s, i + 1, Append(acc, c))

\* CreateDataProperty: a repeated key keeps its place and takes the new value
DefineProperty(m, k, v) ==
  IF \E j \in 1..Len(m) : m[j].k = k
  THEN [j \in 1..Len(m) |-> IF m[j].k = k THEN Prop(k, v) ELSE m[j]]
  ELSE Append(m, Prop(k, v))

RECURSIVE ParseValue(_, _)
RECURSIVE ParseElements(_, _, _)
RECURSIVE ParseMembers(_, _, _)

ParseValue(s, i) ==
  LET c == At(s, i) IN
  CASE c = 34  -> ParseString(s, i + 1, <<>>)
    [] c = 123 -> IF At(s, i + 1) = 125 THEN Parsed(Obj(<<>>), i + 2)
                  ELSE ParseMembers(s, i + 1, <<>>)
    [] c = 91  -> IF At(s, i + 1) = 93 THEN Parsed(Arr(<<>>), i + 2)
                  ELSE ParseElements(s, i + 1, <<>>)
    [] c = 110 -> IF SubSeq(s, i, i + 3) = <<110, 117, 108, 108>>
                  THEN Parsed(Null, i + 4) ELSE SyntaxError
    [] c = 116 -> IF SubSeq(s, i, i + 3) = <<116, 114, 117, 101>>
                  THEN Parsed(Bool(TRUE), i + 4) ELSE SyntaxError
    [] c = 102 -> IF SubSeq(s, i, i + 4) = <<102, 97, 108, 115, 101>>
                  THEN Parsed(Bool(FALSE), i + 5) ELSE SyntaxError
    [] c = 45 \/ IsDigit(c) -> ParseNumber(s, i)
    [] OTHER -> SyntaxError

\* the elements of an array from index i on, up to its closing bracket
ParseElements(s, i, acc) ==
  LET e == ParseValue(s, i) IN
  IF ~e.ok THEN SyntaxError
  ELSE IF At(s, e.i) = 44 THEN ParseElements(s, e.i + 1, Append(acc, e.v))
  ELSE IF At(s, e.i) = 93 THEN Parsed(Arr(Append(acc, e.v)), e.i + 1)
  ELSE SyntaxError

\* the members of an object from index i on, up to its closing brace
ParseMembers(s, i, acc) ==
  IF At(s, i) # 34 THEN SyntaxError
  ELSE
    LET k == ParseString(s, i + 1, <<>>) IN
    IF ~k.ok \/ At(s, k.i) # 58 THEN SyntaxError
    ELSE
      LET e == ParseValue(s, k.i + 1) IN
      IF ~e.ok THEN SyntaxError
      ELSE IF At(s, e.i) = 44
        THEN ParseMembers(s, e.i + 1, DefineProperty(acc, k.v.s, e.v))
      ELSE IF At(s, e.i) = 125
        THEN Parsed(Obj(DefineProperty(acc, k.v.s, e.v)), e.i + 1)
      ELSE SyntaxError

\* JSON.parse(text): the value, or a SyntaxError when text is not one JSON value
JSONparse(text) ==
  LET r == ParseValue(text, 1) IN
  IF r.ok /\ r.i = Len(text) + 1 THEN r ELSE SyntaxError

\* the structure the destination reads from a task's body
DecodeBody(body) == JSONparse(toStringUtf8(BufferFromBase64(body)))

(***************************************************************************)
(* Deep equality of two values: same kind, same content, the properties of *)
(* an object compared by key, whatever their order.                        *)
(***************************************************************************)
Keys(o) == {o.m[j].k : j \in 1..Len(o.m)}
IndexOfKey(o, k) == (CHOOSE j \in 1..Len(o.m) : o.m[j].k = k)

RECURSIVE DeepEqual(_, _)
DeepEqual(a, b) ==
  IF a.t # b.t THEN FALSE
  ELSE CASE a.t = "arr" ->
              /\ Len(a.a) = Len(b.a)
              /\ \A j \in 1..Len(a.a) : DeepEqual(a.a[j], b.a[j])
         [] a.t = "obj" ->
              /\ Len(a.m) = Len(b.m)
              /\ Keys(a) = Keys(b)
              /\ \A k \in Keys(a) : DeepEqual(a.m[IndexOfKey(a, k)].v, b.m[IndexOfKey(b, k)].v)
         [] OTHER -> a = b

(***************************************************************************)
(* The payloads the callers pass: one or two of each interface, with the   *)
(* optional fields, the values of type number and the `any` of the source. *)
(***************************************************************************)
\* the UTF-16 code units of the string literals the payloads use
CodeUnits ==
  ("id" :> <<105, 100>>) @@
  ("status" :> <<115, 116, 97, 116, 117, 115>>) @@
  ("track" :> <<116, 114, 97, 99, 107>>) @@
  ("message" :> <<109, 101, 115, 115, 97, 103, 101>>) @@
  ("createdAt" :> <<99, 114, 101, 97, 116, 101, 100, 65, 116>>) @@
  ("courier" :> <<99, 111, 117, 114, 105, 101, 114>>) @@
  ("name" :> <<110, 97, 109, 101>>) @@
  ("phone" :> <<112, 104, 111, 110, 101>>) @@
  ("trackingUrl" :> <<116, 114, 97, 99, 107, 105, 110, 103, 85, 114, 108>>) @@
  ("photos" :> <<112, 104, 111, 116, 111, 115>>) @@
  ("deliveryId" :> <<100, 101, 108, 105, 118, 101, 114, 121, 73, 100>>) @@
  ("clientId" :> <<99, 108, 105, 101, 110, 116, 73, 100>>) @@
  ("category" :> <<99, 97, 116, 101, 103, 111, 114, 121>>) @@
  ("type" :> <<116, 121, 112, 101>>) @@
  ("target" :> <<116, 97, 114, 103, 101, 116>>) @@
  ("hznProduct" :> <<104, 122, 110, 80, 114, 111, 100, 117, 99, 116>>) @@
  ("log" :> <<108, 111, 103>>) @@
  ("agent" :> <<97, 103, 101, 110, 116>>) @@
  ("app_name" :> <<97, 112, 112, 95, 110, 97, 109, 101>>) @@
  ("completedAt" :> <<99, 111, 109, 112, 108, 101, 116, 101, 100, 65, 116>>)
      @@
  ("newDeliveryId" :> <<110, 101, 119, 68, 101, 108, 105, 118, 101, 114,
      121, 73, 100>>) @@
  ("newAmount" :> <<110, 101, 119, 65, 109, 111, 117, 110, 116>>) @@
  ("newDeliveryStatus" :> <<110, 101, 119, 68, 101, 108, 105, 118, 101, 114,
      121, 83, 116, 97, 116, 117, 115>>) @@
  ("deliveryProofs" :> <<100, 101, 108, 105, 118, 101, 114, 121, 80, 114,
      111, 111, 102, 115>>) @@
  ("serviceUrl" :> <<115, 101, 114, 118, 105, 99, 101, 85, 114, 108>>) @@
  ("scheduleExecutedAt" :> <<115, 99, 104, 101, 100, 117, 108, 101, 69, 120,
      101, 99, 117, 116, 101, 100, 65, 116>>) @@
  ("lastNotificationAt" :> <<108, 97, 115, 116, 78, 111, 116, 105, 102, 105,
      99, 97, 116, 105, 111, 110, 65, 116>>) @@
  ("1111" :> <<49, 49, 49, 49>>) @@
  ("COMPLETED" :> <<67, 79, 77, 80, 76, 69, 84, 69, 68>>) @@
  ("FINISHED" :> <<70, 73, 78, 73, 83, 72, 69, 68>>) @@
  ("arrived" :> <<97, 114, 114, 105, 118, 101, 100>>) @@
  ("0890890980" :> <<48, 56, 57, 48, 56, 57, 48, 57, 56, 48>>) @@
  ("https://t.url/1.jpg" :> <<104, 116, 116, 112, 115, 58, 47, 47, 116, 46,
      117, 114, 108, 47, 49, 46, 106, 112, 103>>) @@
  ("d-1" :> <<100, 45, 49>>) @@
  ("d-2" :> <<100, 45, 50>>) @@
  ("123123" :> <<49, 50, 51, 49, 50, 51>>) @@
  ("API CALL" :> <<65, 80, 73, 32, 67, 65, 76, 76>>) @@
  ("INFO" :> <<73, 78, 70, 79>>) @@
  ("HZN" :> <<72, 90, 78>>) @@
  ("1" :> <<49>>) @@
  ("FLICK" :> <<70, 76, 73, 67, 75>>) @@
  ("myapp" :> <<109, 121, 97, 112, 112>>) @@
  ("ON HOLD" :> <<79, 78, 32, 72, 79, 76, 68>>) @@
  ("https://svc/hook" :> <<104, 116, 116, 112, 115, 58, 47, 47, 115, 118,
      99, 47, 104, 111, 111, 107>>) @@
  ("ok" :> <<111, 107>>)

U(s) == CodeUnits[s]

\* a courier name with a diaeresis, a space, quotes and a euro sign: Dïdik "€"
CourierName == <<68, 239, 100, 105, 107, 32, 34, 8364, 34>>

\* {id: "1111", status: "COMPLETED",
\*  track: {status: "FINISHED", message: "arrived", createdAt: 1700000000}}
ScenarioPayload ==
  Obj(<<Prop(U("id"), Str(U("1111"))),
        Prop(U("status"), Str(U("COMPLETED"))),
        Prop(U("track"), Obj(<<Prop(U("status"), Str(U("FINISHED"))),
                               Prop(U("message"), Str(U("arrived"))),
                               Prop(U("createdAt"), Num(1700000000))>>))>>)

\* IRequestPayloadInsertToDeliveryTracking
TrackingPayloads ==
  { ScenarioPayload,
    Obj(<<Prop(U("id"), Str(U("1111"))),
          Prop(U("status"), Str(<<>>)),
          Prop(U("trackingUrl"), Str(<<>>)),
          Prop(U("track"), Obj(<<Prop(U("status"), Str(U("FINISHED"))),
                                 Prop(U("createdAt"), Num(0)),
                                 Prop(U("courier"),
                                      Obj(<<Prop(U("name"), Str(CourierName)),
                                            Prop(U("phone"), Str(U("0890890980")))>>))>>)),
          Prop(U("photos"), Arr(<<Str(U("https://t.url/1.jpg"))>>))>>) }

\* IRequestPayloadIsCancellable
IsCancellablePayloads ==
  { Obj(<<Prop(U("deliveryId"), Str(U("d-1")))>>),
    Obj(<<Prop(U("deliveryId"), Str(U("d-2")))>>) }

LogPayload(log) ==
  Obj(<<Prop(U("clientId"), Str(U("123123"))),
        Prop(U("category"), Str(U("API CALL"))),
        Prop(U("type"), Str(U("INFO"))),
        Prop(U("target"), Str(U("HZN"))),
        Prop(U("hznProduct"), Obj(<<Prop(U("id"), Str(U("1"))),
                                    Prop(U("name"), Str(U("FLICK")))>>)),
        Prop(U("log"), log),
        Prop(U("agent"), Obj(<<Prop(U("app_name"), Str(U("myapp")))>>))>>)

\* IRequestPayloadLog: log is of type any
LogPayloads ==
  { LogPayload(Obj(<<Prop(U("ok"), Bool(TRUE)), Prop(U("message"), Null),
                     Prop(U("id"), Arr(<<Num(-7), Bool(FALSE)>>))>>)),
    LogPayload(Circular) }

\* IRequestPayloadBilling
BillingPayloads ==
  { Obj(<<Prop(U("deliveryId"), Str(U("d-1"))),
          Prop(U("completedAt"), Num(1700000000))>>),
    Obj(<<Prop(U("deliveryId"), Str(U("d-1"))), Prop(U("completedAt"), NaN)>>) }

\* IRequestChangeDeliveryStatus
ChangeDeliveryStatusPayloads ==
  { Obj(<<Prop(U("deliveryId"), Str(U("d-1"))),
          Prop(U("status"), Str(U("COMPLETED")))>>),
    Obj(<<Prop(U("deliveryId"), Str(U("d-2"))), Prop(U("status"), Str(<<>>))>>) }

\* IRequestChangeDeliveryData
ChangeDeliveryDataPayloads ==
  { Obj(<<Prop(U("deliveryId"), Str(U("d-1"))),
          Prop(U("newDeliveryId"), Str(U("d-2"))),
          Prop(U("newAmount"), Num(15000)),
          Prop(U("newDeliveryStatus"), Str(U("ON HOLD"))),
          Prop(U("deliveryProofs"), Arr(<<>>))>>),
    Obj(<<Prop(U("deliveryId"), Str(U("d-1"))),
          Prop(U("newDeliveryId"), Undefined),
          Prop(U("newAmount"), Num(0))>>) }

\* IRequestSimulateWebhook
SimulateWebhookPayloads ==
  { Obj(<<Prop(U("deliveryId"), Str(U("d-1"))),
          Prop(U("serviceUrl"), Str(U("https://svc/hook"))),
          Prop(U("scheduleExecutedAt"), Num(1700000000)),
          Prop(U("lastNotificationAt"), Num(1699999999))>>),
    Obj(<<Prop(U("deliveryId"), Str(U("d-2"))),
          Prop(U("serviceUrl"), Str(<<>>)),
          Prop(U("scheduleExecutedAt"), Num(0)),
          Prop(U("lastNotificationAt"), Num(-1))>>) }

Payloads ==
  TrackingPayloads \cup IsCancellablePayloads \cup LogPayloads
    \cup BillingPayloads \cup ChangeDeliveryStatusPayloads
    \cup ChangeDeliveryDataPayloads \cup SimulateWebhookPayloads

(***************************************************************************)
(* The program: the module that is loaded (one of the two revisions of the *)
(* source), the builders constructed so far, and the operation calls made  *)
(* on them. A call is an async function: it runs to its await of           *)
(* client.createTask, and resumes when that promise settles.               *)
(***************************************************************************)
Revisions  == {"src/delivery.ts", "part_000"}
Projects   == {"hzn-production", "hzn-sandbox", "demo-project"}
BuilderIds == {"creator1", "creator2"}
\* the identifiers the queue service gives the tasks it creates
TaskIds    == {"7001"}
\* the failures of the enqueue call
ErrorCodes == {"UNAVAILABLE"}
\* the calls whose result the caller has not received yet
MaxCalls == 1
\* the same, of callers that do not wait for one call before the next
MaxConcurrent == 2

VARIABLES
  revision,   \* the source file the module was loaded from
  builders,   \* builder id -> the fields of the DeliveryTaskCreator
  calls,      \* the bag of calls in progress, each with its position and result
  probe,      \* a direct application of createRequest: its inputs and result
  callers     \* how many calls the callers have in progress at most

vars == <<revision, builders, calls, probe, callers>>

NoBuilder == [constructed |-> FALSE, project |-> "", serviceAccountEmail |-> ""]

\* new DeliveryTaskCreator(project)
DeliveryTaskCreator(project) ==
  [constructed |-> TRUE,
   project |-> project,
   serviceAccountEmail |-> project \o "@appspot.gserviceaccount.com"]

\* the queue and the location taken for one another
queuePath_swapped(project, location, queue) ==
  "projects/" \o project \o "/locations/" \o queue \o "/queues/" \o location

\* client.queuePath(project, location, queue)
queuePath(project, location, queue) ==
  "projects/" \o project \o "/locations/" \o location \o "/queues/" \o queue

headers_octetStream == [h \in {"Content-Type"} |-> "application/octet-stream"]

httpMethod == "POST"
headers == [h \in {"Content-Type"} |-> "application/json"]

\* Buffer.from(JSON.stringify(payload)).toString("base64"), given the JSON text
body(json) == toStringBase64(BufferFrom(json))

\* JSON.stringify(payload) and the body made of it, for each payload the callers
\* pass: worked out once, and read by createRequest
Stringified == [p \in Payloads |-> JSONstringify(p)]
Bodies ==
  [p \in Payloads |->
     IF Stringified[p].k = "text" THEN body(Stringified[p].s) ELSE <<>>]

\* the project where the service account belongs
oidcToken_project(this) == [serviceAccountEmail |-> this.project]

oidcToken(this) == [serviceAccountEmail |-> this.serviceAccountEmail]

NoRequest == [parent |-> "", task |-> <<>>]

\* createRequest: the descriptor, or the TypeError of a payload that
\* JSON.stringify cannot serialise (Buffer.from(undefined) throws one too)
createRequest(this, payload, location, queue, url) ==
  LET parent == queuePath(this.project, location, queue)
      json   == Stringified[payload]
  IN
  IF json.k # "text" THEN [threw |-> TRUE, request |-> NoRequest]
  ELSE [threw |-> FALSE,
        request |->
          [parent |-> parent,
           task |-> [httpRequest |->
                       [httpMethod |-> httpMethod,
                        url |-> url,
                        body |-> Bodies[payload],
                        headers |-> headers,
                        oidcToken |-> oidcToken(this)]]]]

\* the label of an operation's console.log in its catch block
ErrorLabel(op) ==
  CASE op = "insertToDeliveryTracking" -> "Error insertToDeliveryTracking: "
    [] op = "updateIsCancellable"      -> "Error updateIsCancellable: "
    [] op = "insertLog"                -> "Error insertLog: "
    [] op = "forwardingWebhook"        -> "Error forwardingWebhook: "
    [] op = "createBilling"            -> "Error createBilling: "
    [] op = "changeDeliveryStatus"     -> "Error changeDeliveryStatus: "
    [] op = "changeDeliveryData"       -> "Error changeDeliveryData: "
    [] op = "simulateWebhook"          -> "Error changeDeliveryData: "

NoSettlement == [kind |-> "none", v |-> ""]
NoResult     == [kind |-> "none", v |-> ""]

\* a call that has entered its try block
Entered(op, b, payload) ==
  [op |-> op, builder |-> b, payload |-> payload, pc |-> "try",
   passed |-> payload,       \* the payload as it was when the caller passed it
   enqueued |-> <<>>,        \* the requests it handed to client.createTask
   settled |-> NoSettlement, \* how the awaited promise settled
   outcome |-> "pending",    \* of the promise the async function returned
   result |-> NoResult,
   log |-> <<>>]             \* what it wrote with console.log

\* a catch block that logs and throws the error again
Caught_rethrow(c, error) ==
  [c EXCEPT !.pc = "returned",
            !.outcome = "rejected",
            !.log = Append(@, [text |-> "Error: ", error |-> error])]

\* catch (error) { console.log(`Error <op>: `, error); return error; }
Caught(c, error) ==
  [c EXCEPT !.pc = "returned",
            !.outcome = "fulfilled",
            !.result = [kind |-> "error", v |-> error],
            !.log = Append(@, [text |-> ErrorLabel(c.op), error |-> error])]

\* the success path without its return statement
Created_noReturn(c, name) ==
  [c EXCEPT !.pc = "returned",
            !.outcome = "fulfilled",
            !.result = [kind |-> "undefined", v |-> ""],
            !.log = Append(@, [text |-> "Created task " \o name, error |-> ""])]

\* console.log(`Created task ${response.name}`); return response.name;
Created(c, name) ==
  [c EXCEPT !.pc = "returned",
            !.outcome = "fulfilled",
            !.result = [kind |-> "name", v |-> name],
            !.log = Append(@, [text |-> "Created task " \o name, error |-> ""])]

\* a createRequest that empties the caller's object once it is encoded
Awaiting_cleared(c, request) ==
  [c EXCEPT !.pc = "awaiting", !.enqueued = Append(@, request), !.payload = Null]

\* const [response] = await client.createTask(request): the call is made and
\* the function suspends
Awaiting(c, request) ==
  [c EXCEPT !.pc = "awaiting", !.enqueued = Append(@, request)]

\* the body of an operation up to its await, for its url, queue and location
Submit(op, b, payload, url, queue, location) ==
  /\ builders[b].constructed
  /\ BagCardinality(calls) < callers
  /\ LET r == createRequest(builders[b], payload, location, queue, url)
         c == Entered(op, b, payload)
     IN calls' = calls (+) SetToBag({IF r.threw THEN Caught(c, "TypeError")
                                     ELSE Awaiting(c, r.request)})
  /\ UNCHANGED <<revision, builders, probe, callers>>

CloudFunction(project, name) ==
  "https://us-central1-" \o project \o ".cloudfunctions.net/" \o name

Construct(b, project) ==
  /\ ~builders[b].constructed
  /\ builders' = [builders EXCEPT ![b] = DeliveryTaskCreator(project)]
  /\ UNCHANGED <<revision, calls, probe, callers>>

insertToDeliveryTracking(b, payload) ==
  Submit("insertToDeliveryTracking", b, payload,
         CloudFunction(builders[b].project, "insertToDeliveryTrackingCollection"),
         "insert-to-delivery-tracking-collection-tmp", "asia-east1")

updateIsCancellable(b, payload) ==
  Submit("updateIsCancellable", b, payload,
         CloudFunction(builders[b].project, "isDeliveryCancellable"),
         "update-is-cancellable", "asia-east1")

insertLog(b, payload) ==
  Submit("insertLog", b, payload,
         CloudFunction(builders[b].project, "insertLog"),
         "insert-log", "asia-east1")

\* forwardingWebhook left with the queue of the operation it was copied from
forwardingWebhook_copied(b, payload) ==
  Submit("forwardingWebhook", b, payload,
         CloudFunction(builders[b].project, "forwardingWebhook"),
         "insert-to-delivery-tracking-collection-tmp", "asia-east1")

forwardingWebhook(b, payload) ==
  Submit("forwardingWebhook", b, payload,
         CloudFunction(builders[b].project, "forwardingWebhook"),
         "forwarding-webhook", "asia-east1")

createBilling(b, payload) ==
  Submit("createBilling", b, payload,
         CloudFunction(builders[b].project, "createBilling"),
         "create-billing", "asia-east1")

changeDeliveryStatus(b, payload) ==
  Submit("changeDeliveryStatus", b, payload,
         CloudFunction(builders[b].project, "changeDeliveryStatus"),
         "change-delivery-status", "asia-east1")

\* changeDeliveryData left with the url of the operation it was copied from
changeDeliveryData_copied(b, payload) ==
  Submit("changeDeliveryData", b, payload,
         CloudFunction(builders[b].project, "changeDeliveryStatus"),
         "change-delivery-data", "asia-east1")

changeDeliveryData(b, payload) ==
  Submit("changeDeliveryData", b, payload,
         CloudFunction(builders[b].project, "changeDeliveryData"),
         "change-delivery-data", "asia-east1")

\* the switch on this.project of src/src/delivery.ts
simulateWebhookUrl(project) ==
  CASE project = "hzn-production" ->
         "https://delivery-partners-queue-run-production-vtbootglhq-uc.a.run.app/v1/webhooks/simulate"
    [] project = "hzn-sandbox" ->
         "https://delivery-partners-queue-run-sandbox-adchrwkija-uc.a.run.app/v1/webhooks/simulate"
    [] OTHER ->
         "https://delivery-partners-queue-run-development-ai2gu4pljq-uc.a.run.app/v1/webhooks/simulate"

\* the url of the earlier revision
simulateWebhookUrl_part_000(project) == CloudFunction(project, "simulateWebhook")

\* simulateWebhook left with the url and the queue of changeDeliveryData
simulateWebhook_copied(b, payload) ==
  Submit("simulateWebhook", b, payload,
         CloudFunction(builders[b].project, "changeDeliveryData"),
         "change-delivery-data", "asia-east1")

simulateWebhook(b, payload) ==
  Submit("simulateWebhook", b, payload,
         IF revision = "src/delivery.ts"
         THEN simulateWebhookUrl(builders[b].project)
         ELSE simulateWebhookUrl_part_000(builders[b].project),
         "simulate-webhook", "asia-east1")

\* the queue service creates the task: the awaited promise resolves with it
createTaskResolves(c, id) ==
  /\ c.pc = "awaiting"
  /\ calls' = (calls (-) SetToBag({c}))
                (+) SetToBag({[c EXCEPT !.pc = "resolved",
                                        !.settled = [kind |-> "response",
                                                     v |-> c.enqueued[1].parent
                                                           \o "/tasks/" \o id]]})
  /\ UNCHANGED <<revision, builders, probe, callers>>

\* the enqueue call fails: the awaited promise rejects
createTaskRejects(c, code) ==
  /\ c.pc = "awaiting"
  /\ calls' = (calls (-) SetToBag({c}))
                (+) SetToBag({[c EXCEPT !.pc = "rejected",
                                        !.settled = [kind |-> "error", v |-> code]]})
  /\ UNCHANGED <<revision, builders, probe, callers>>

\* a catch block that submits the request once more before it returns
Resumed_retry(c) ==
  IF c.pc = "resolved" THEN Created(c, c.settled.v)
  ELSE [Caught(c, c.settled.v) EXCEPT !.enqueued = Append(@, c.enqueued[1])]

\* the response kept in a variable of the module, which the calls share: a
\* resumed operation reads what another call's promise settled with
Resumed_shared(c) ==
  LET others == {d \in BagToSet(calls) : d.pc \in {"resolved", "rejected"}} \ {c}
      d == IF others = {} THEN c ELSE CHOOSE x \in others : TRUE
  IN IF d.pc = "resolved" THEN Created(c, d.settled.v) ELSE Caught(c, d.settled.v)

\* what a resumed operation does with the settled promise
Resumed(c) ==
  IF c.pc = "resolved" THEN Created(c, c.settled.v) ELSE Caught(c, c.settled.v)

\* an operation without its catch block: nothing runs after a rejection
Resume_resolvedOnly(c) ==
  /\ c.pc = "resolved"
  /\ calls' = (calls (-) SetToBag({c})) (+) SetToBag({Resumed(c)})
  /\ UNCHANGED <<revision, builders, probe, callers>>

\* the operation resumes after its await, logs and returns
Resume(c) ==
  /\ c.pc \in {"resolved", "rejected"}
  /\ calls' = (calls (-) SetToBag({c})) (+) SetToBag({Resumed(c)})
  /\ UNCHANGED <<revision, builders, probe, callers>>

\* the caller's await of the operation completes: it has the result, and the
\* program holds nothing of the call any more
CallerReceives(c) ==
  /\ c.pc = "returned"
  /\ calls' = calls (-) SetToBag({c})
  /\ UNCHANGED <<revision, builders, probe, callers>>

NoProbe == [done |-> TRUE, threw |-> TRUE]

Init ==
  /\ revision \in Revisions
  /\ builders = [b \in BuilderIds |-> NoBuilder]
  /\ calls = EmptyBag
  /\ probe = NoProbe
  /\ callers = MaxCalls

Next ==
  \/ \E b \in BuilderIds, project \in Projects : Construct(b, project)
  \/ \E b \in BuilderIds, payload \in TrackingPayloads :
       insertToDeliveryTracking(b, payload)
  \/ \E b \in BuilderIds, payload \in IsCancellablePayloads :
       updateIsCancellable(b, payload)
  \/ \E b \in BuilderIds, payload \in LogPayloads : insertLog(b, payload)
  \/ \E b \in BuilderIds, payload \in TrackingPayloads :
       forwardingWebhook(b, payload)
  \/ \E b \in BuilderIds, payload \in BillingPayloads : createBilling(b, payload)
  \/ \E b \in BuilderIds, payload \in ChangeDeliveryStatusPayloads :
       changeDeliveryStatus(b, payload)
  \/ \E b \in BuilderIds, payload \in ChangeDeliveryDataPayloads :
       changeDeliveryData(b, payload)
  \/ \E b \in BuilderIds, payload \in SimulateWebhookPayloads :
       simulateWebhook(b, payload)
  \/ \E c \in BagToSet(calls), id \in TaskIds : createTaskResolves(c, id)
  \/ \E c \in BagToSet(calls), code \in ErrorCodes : createTaskRejects(c, code)
  \/ \E c \in BagToSet(calls) : Resume(c)
  \/ \E c \in BagToSet(calls) : CallerReceives(c)

Spec == Init /\ [][Next]_vars

\* the eight operations of the class
Operations ==
  {"insertToDeliveryTracking", "updateIsCancellable", "insertLog",
   "forwardingWebhook", "createBilling", "changeDeliveryStatus",
   "changeDeliveryData", "simulateWebhook"}

\* the runtime runs the continuation of an await whose promise has settled:
\* the jobs of settled promises are queued and the queue is always served
EventLoop ==
  \A op \in Operations, b \in BuilderIds :
    WF_vars(\E c \in BagToSet(calls) : c.op = op /\ c.builder = b /\ Resume(c))

(***************************************************************************)
(* Callers that do not await one call before they make the next: two       *)
(* builders of different projects are in use, and several calls on them    *)
(* are in flight at once, through the one client of the module.            *)
(***************************************************************************)
\* the payloads these callers pass: the scenario's, the log entries, and the
\* payloads about the delivery d-1
ConcurrentPayloads ==
  {ScenarioPayload} \cup LogPayloads
    \cup {p \in Payloads : p.m[1].v = Str(U("d-1"))}

InitConcurrent ==
  /\ revision \in Revisions
  /\ builders = [b \in BuilderIds |->
                   IF b = "creator1" THEN DeliveryTaskCreator("hzn-production")
                   ELSE DeliveryTaskCreator("demo-project")]
  /\ calls = EmptyBag
  /\ probe = NoProbe
  /\ callers = MaxConcurrent

NextConcurrent ==
  \/ \E b \in BuilderIds, payload \in TrackingPayloads \cap ConcurrentPayloads :
       insertToDeliveryTracking(b, payload)
  \/ \E b \in BuilderIds, payload \in IsCancellablePayloads \cap ConcurrentPayloads :
       updateIsCancellable(b, payload)
  \/ \E b \in BuilderIds, payload \in LogPayloads \cap ConcurrentPayloads :
       insertLog(b, payload)
  \/ \E b \in BuilderIds, payload \in TrackingPayloads \cap ConcurrentPayloads :
       forwardingWebhook(b, payload)
  \/ \E b \in BuilderIds, payload \in BillingPayloads \cap ConcurrentPayloads :
       createBilling(b, payload)
  \/ \E b \in BuilderIds, payload \in ChangeDeliveryStatusPayloads \cap ConcurrentPayloads :
       changeDeliveryStatus(b, payload)
  \/ \E b \in BuilderIds, payload \in ChangeDeliveryDataPayloads \cap ConcurrentPayloads :
       changeDeliveryData(b, payload)
  \/ \E b \in BuilderIds, payload \in SimulateWebhookPayloads \cap ConcurrentPayloads :
       simulateWebhook(b, payload)
  \/ \E c \in BagToSet(calls), id \in TaskIds : createTaskResolves(c, id)
  \/ \E c \in BagToSet(calls), code \in ErrorCodes : createTaskRejects(c, code)
  \/ \E c \in BagToSet(calls) : Resume(c)
  \/ \E c \in BagToSet(calls) : CallerReceives(c)

SpecConcurrent == InitConcurrent /\ [][NextConcurrent]_vars

(***************************************************************************)
(* The same builders under a runtime that serves its job queue: what the   *)
(* calls on them go on to do once their enqueue calls have settled.        *)
(***************************************************************************)
InitLive ==
  /\ revision \in Revisions
  /\ builders = [b \in BuilderIds |->
                   IF b = "creator1" THEN DeliveryTaskCreator("hzn-production")
                   ELSE DeliveryTaskCreator("demo-project")]
  /\ calls = EmptyBag
  /\ probe = NoProbe
  /\ callers = MaxCalls

SpecLive == InitLive /\ [][NextConcurrent]_vars /\ EventLoop

(***************************************************************************)
(* createRequest on its own: a builder of any project applies it to any    *)
(* payload, location, queue name and url.                                  *)
(***************************************************************************)
Locations == {"asia-east1", "europe-west1"}
Queues    == {"insert-log", "simulate-webhook", "q"}
Urls      == {CloudFunction("demo-project", "insertLog"),
              simulateWebhookUrl("hzn-production")}

InitBuild ==
  /\ revision \in Revisions
  /\ builders = [b \in BuilderIds |-> NoBuilder]
  /\ calls = EmptyBag
  /\ probe \in [project : Projects, payload : Payloads, location : Locations,
                queue : Queues, url : Urls,
                done : {FALSE}, threw : {FALSE}, request : {NoRequest}]
  /\ callers = MaxCalls

ApplyCreateRequest ==
  /\ ~probe.done
  /\ LET r == createRequest(DeliveryTaskCreator(probe.project), probe.payload,
                            probe.location, probe.queue, probe.url)
     IN probe' = [probe EXCEPT !.done = TRUE, !.threw = r.threw,
                               !.request = r.request]
  /\ UNCHANGED <<revision, builders, calls, callers>>

NextBuild == ApplyCreateRequest

SpecBuild == InitBuild /\ [][NextBuild]_vars

(***************************************************************************)
(* The properties.                                                         *)
(***************************************************************************)
Built == probe.done /\ ~probe.threw

RECURSIVE JsonRepresentable(_)
\* a value made of strings, integers, booleans, null, arrays and objects only
JsonRepresentable(v) ==
  CASE v.t \in {"str", "num", "bool", "null"} -> TRUE
    [] v.t = "arr" -> \A j \in 1..Len(v.a) : JsonRepresentable(v.a[j])
    [] v.t = "obj" -> \A j \in 1..Len(v.m) : JsonRepresentable(v.m[j].v)
    [] OTHER -> FALSE

\* some string of the value holds a code unit that UTF-8 writes in several bytes
RECURSIVE HasNonAscii(_)
HasNonAscii(v) ==
  CASE v.t = "str" -> \E j \in 1..Len(v.s) : v.s[j] > 127
    [] v.t = "arr" -> \E j \in 1..Len(v.a) : HasNonAscii(v.a[j])
    [] v.t = "obj" -> \E j \in 1..Len(v.m) : HasNonAscii(v.m[j].v)
    [] OTHER -> FALSE

BodyRoundTrips ==
  LET d == DecodeBody(probe.request.task.httpRequest.body) IN
  d.ok /\ DeepEqual(d.v, probe.payload)

\* C1 as stated: the body of every descriptor createRequest builds decodes
\* (base64, then JSON) to a structure deep-equal to the payload.
C1_BodyDecodesToPayload == Built => BodyRoundTrips

\* C1, amended: the body of every descriptor createRequest builds from a
\* payload made of JSON values only (strings, finite numbers, booleans, null,
\* arrays, objects without undefined-valued properties) decodes to a
\* structure deep-equal to the payload.
C1_BodyDecodesToJsonPayload ==
  (Built /\ JsonRepresentable(probe.payload)) => BodyRoundTrips

C1_Witness ==
  /\ Built
  /\ JsonRepresentable(probe.payload)
  /\ HasNonAscii(probe.payload)
  /\ probe.location = "europe-west1"
  /\ BodyRoundTrips

\* C2: the queue path of every descriptor built by a builder of project p for
\* location loc and queue name q is projects/{p}/locations/{loc}/queues/{q}.
C2_QueuePath ==
  Built => probe.request.parent =
             "projects/" \o probe.project \o "/locations/" \o probe.location
               \o "/queues/" \o probe.queue

C2_Witness ==
  /\ Built
  /\ probe.project = "hzn-sandbox"
  /\ probe.request.parent = "projects/hzn-sandbox/locations/europe-west1/queues/q"

Calls == BagToSet(calls)

\* the project a builder was constructed with
ProjectOf(c) == builders[c.builder].project

\* C3: every descriptor a builder constructed with project p hands to the
\* enqueue call carries the identity {p}@appspot.gserviceaccount.com, whatever
\* calls were made before on it and on the other builders.
C3_IdentityToken ==
  \A c \in Calls : \A i \in 1..Len(c.enqueued) :
    c.enqueued[i].task.httpRequest.oidcToken.serviceAccountEmail
      = ProjectOf(c) \o "@appspot.gserviceaccount.com"

C3_Witness ==
  \E c \in Calls :
    /\ c.builder = "creator2"
    /\ c.pc = "awaiting"
    /\ builders["creator1"].project = "hzn-production"
    /\ ProjectOf(c) = "demo-project"
    /\ c.enqueued[1].task.httpRequest.oidcToken.serviceAccountEmail
         = "demo-project@appspot.gserviceaccount.com"

ProductionUrl ==
  "https://delivery-partners-queue-run-production-vtbootglhq-uc.a.run.app/v1/webhooks/simulate"
SandboxUrl ==
  "https://delivery-partners-queue-run-sandbox-adchrwkija-uc.a.run.app/v1/webhooks/simulate"
DevelopmentUrl ==
  "https://delivery-partners-queue-run-development-ai2gu4pljq-uc.a.run.app/v1/webhooks/simulate"

\* C4: the task simulateWebhook submits goes to the production url when the
\* builder's project is hzn-production, to the sandbox url when it is
\* hzn-sandbox, and to the development url for any other project.
C4_SimulateWebhookUrl ==
  \A c \in Calls : \A i \in 1..Len(c.enqueued) :
    c.op = "simulateWebhook" =>
      c.enqueued[i].task.httpRequest.url =
        (IF ProjectOf(c) = "hzn-production" THEN ProductionUrl
         ELSE IF ProjectOf(c) = "hzn-sandbox" THEN SandboxUrl
         ELSE DevelopmentUrl)

\* C5: when the enqueue call fails, the operation completes by returning the
\* error as its result: its promise is fulfilled, not rejected, and the result
\* is never a task name.
C5_FailureIsReturned ==
  \A c \in Calls :
    (c.pc = "returned" /\ c.settled.kind = "error") =>
      /\ c.outcome = "fulfilled"
      /\ c.result = [kind |-> "error", v |-> c.settled.v]

C5_Witness ==
  \E c \in Calls :
    /\ c.op = "createBilling"
    /\ c.pc = "returned"
    /\ c.settled = [kind |-> "error", v |-> "UNAVAILABLE"]
    /\ c.outcome = "fulfilled"
    /\ c.result.kind = "error"

\* C6: when the enqueue call succeeds, the operation returns exactly the name
\* of the task in the response to the request this call submitted.
C6_SuccessReturnsTaskName ==
  \A c \in Calls :
    (c.pc = "returned" /\ c.settled.kind = "response") =>
      /\ c.outcome = "fulfilled"
      /\ c.result = [kind |-> "name", v |-> c.settled.v]
      /\ \E id \in TaskIds : c.result.v = c.enqueued[1].parent \o "/tasks/" \o id

C6_Witness ==
  \E c \in Calls :
    /\ c.op = "changeDeliveryData"
    /\ c.pc = "returned"
    /\ ProjectOf(c) = "hzn-sandbox"
    /\ c.result =
         [kind |-> "name",
          v |-> "projects/hzn-sandbox/locations/asia-east1/queues/change-delivery-data/tasks/7001"]

\* the queue name of each operation
QueueOf(op) ==
  CASE op = "insertToDeliveryTracking" -> "insert-to-delivery-tracking-collection-tmp"
    [] op = "updateIsCancellable"      -> "update-is-cancellable"
    [] op = "insertLog"                -> "insert-log"
    [] op = "forwardingWebhook"        -> "forwarding-webhook"
    [] op = "createBilling"            -> "create-billing"
    [] op = "changeDeliveryStatus"     -> "change-delivery-status"
    [] op = "changeDeliveryData"       -> "change-delivery-data"
    [] op = "simulateWebhook"          -> "simulate-webhook"

\* C7: every operation submits its task to region asia-east1 and to the queue
\* fixed for the operation, whatever the payload.
C7_RegionAndQueue ==
  \A c \in Calls : \A i \in 1..Len(c.enqueued) :
    c.enqueued[i].parent =
      "projects/" \o ProjectOf(c) \o "/locations/asia-east1/queues/" \o QueueOf(c.op)

C7_Witness ==
  \E c \in Calls :
    /\ c.op = "insertToDeliveryTracking"
    /\ c.payload = ScenarioPayload
    /\ ProjectOf(c) = "demo-project"
    /\ c.pc = "awaiting"
    /\ c.enqueued[1].parent =
         "projects/demo-project/locations/asia-east1/queues/insert-to-delivery-tracking-collection-tmp"

\* the endpoint of each operation but simulateWebhook
EndpointOf(op) ==
  CASE op = "insertToDeliveryTracking" -> "insertToDeliveryTrackingCollection"
    [] op = "updateIsCancellable"      -> "isDeliveryCancellable"
    [] op = "insertLog"                -> "insertLog"
    [] op = "forwardingWebhook"        -> "forwardingWebhook"
    [] op = "createBilling"            -> "createBilling"
    [] op = "changeDeliveryStatus"     -> "changeDeliveryStatus"
    [] op = "changeDeliveryData"       -> "changeDeliveryData"

\* C8: every operation other than simulateWebhook submits its task to one
\* url, that of the builder's project ending in the operation's endpoint,
\* whatever the payload.
C8_FixedUrl ==
  \A c \in Calls : \A i \in 1..Len(c.enqueued) :
    c.op # "simulateWebhook" =>
      c.enqueued[i].task.httpRequest.url =
        "https://us-central1-" \o ProjectOf(c) \o ".cloudfunctions.net/"
          \o EndpointOf(c.op)

C8_Witness ==
  \E c \in Calls :
    /\ c.op = "changeDeliveryData"
    /\ \E j \in 1..Len(c.payload.m) : c.payload.m[j].v = Undefined
    /\ c.pc = "awaiting"
    /\ c.enqueued[1].task.httpRequest.url =
         "https://us-central1-hzn-production.cloudfunctions.net/changeDeliveryData"

\* C9: every descriptor an operation submits has method POST and the header
\* Content-Type: application/json.
C9_PostJson ==
  \A c \in Calls : \A i \in 1..Len(c.enqueued) :
    /\ c.enqueued[i].task.httpRequest.httpMethod = "POST"
    /\ c.enqueued[i].task.httpRequest.headers["Content-Type"] = "application/json"

C9_Witness ==
  \E c \in Calls :
    /\ c.op = "simulateWebhook"
    /\ c.pc = "awaiting"
    /\ Len(c.enqueued) = 1
    /\ c.enqueued[1].task.httpRequest.httpMethod = "POST"

RECURSIVE Serialisable(_)
\* an object or array that holds no BigInt and does not refer to itself
Serialisable(v) ==
  CASE v.t \in {"bigint", "circular"} -> FALSE
    [] v.t = "arr" -> \A j \in 1..Len(v.a) : Serialisable(v.a[j])
    [] v.t = "obj" -> \A j \in 1..Len(v.m) : Serialisable(v.m[j].v)
    [] OTHER -> TRUE

\* C10 as stated: every call of an operation has issued exactly one enqueue
\* call, and issues no other after a failure.
C10_ExactlyOneEnqueue == \A c \in Calls : Len(c.enqueued) = 1

\* C10, amended: every call of an operation issues at most one enqueue call:
\* one when its descriptor is built, none when JSON.stringify cannot serialise
\* the payload (the TypeError is then returned); after a failure it issues no
\* other.
C10_AtMostOneEnqueue ==
  \A c \in Calls : Len(c.enqueued) = (IF Serialisable(c.payload) THEN 1 ELSE 0)

C10_Witness ==
  \E c \in Calls :
    /\ c.pc = "returned"
    /\ c.settled.kind = "error"
    /\ Len(c.enqueued) = 1

\* the url an operation of this module submits to, for a project
UrlOf(op, project) ==
  IF op # "simulateWebhook" THEN CloudFunction(project, EndpointOf(op))
  ELSE IF revision = "src/delivery.ts" THEN simulateWebhookUrl(project)
  ELSE simulateWebhookUrl_part_000(project)

\* the descriptor made of a call's own payload and its builder's project alone
OwnRequest(c) ==
  createRequest(DeliveryTaskCreator(ProjectOf(c)), c.payload, "asia-east1",
                QueueOf(c.op), UrlOf(c.op, ProjectOf(c)))

\* the result made of a call's own descriptor and its own enqueue response
OwnResult(c) ==
  IF OwnRequest(c).threw THEN [kind |-> "error", v |-> "TypeError"]
  ELSE IF c.settled.kind = "response" THEN [kind |-> "name", v |-> c.settled.v]
  ELSE [kind |-> "error", v |-> c.settled.v]

\* C11: with several calls in flight at once, on one builder or on builders
\* that share the client, in every interleaving each call's submitted
\* descriptor is the one made of its own payload and its builder's project,
\* and its result the one made of its own enqueue response: no call reads or
\* changes the descriptor or the result of another.
C11_CallsAreIndependent ==
  \A c \in Calls :
    /\ c.enqueued = IF OwnRequest(c).threw THEN <<>> ELSE <<OwnRequest(c).request>>
    /\ c.settled.kind = "response" =>
         \E id \in TaskIds : c.settled.v = OwnRequest(c).request.parent \o "/tasks/" \o id
    /\ c.result = IF c.pc = "returned" THEN OwnResult(c) ELSE NoResult

\* the same operation with the same payload, called on the two builders while
\* both calls are in flight: one has returned its task's name, the other the
\* error of its own enqueue call
C11_Witness ==
  \E c, d \in Calls :
    /\ c.op = d.op /\ c.payload = d.payload
    /\ c.builder = "creator1" /\ d.builder = "creator2"
    /\ c.pc = "returned" /\ d.pc = "returned"
    /\ c.result.kind = "name" /\ d.result = [kind |-> "error", v |-> "UNAVAILABLE"]
    /\ c.enqueued # d.enqueued

\* C12: building and submitting a task changes neither the caller's payload
\* nor the builder's project and service account: through every call, whether
\* it succeeds or fails, the payload is as the caller passed it, and no step
\* changes the fields of a constructed builder.
C12_PayloadAndConfigUnchanged ==
  /\ [](\A c \in Calls : c.payload = c.passed)
  /\ [][\A b \in BuilderIds :
          builders[b].constructed => builders'[b] = builders[b]]_vars

\* a failed call has returned: its payload, which JSON cannot represent in
\* full, is still what was passed, and its builder is as it was constructed
C12_Witness ==
  \E c \in Calls :
    /\ c.pc = "returned"
    /\ c.settled.kind = "error"
    /\ ~JsonRepresentable(c.payload)
    /\ c.payload = c.passed
    /\ builders[c.builder] = DeliveryTaskCreator("hzn-sandbox")

\* the enqueue call of c has settled and the operation has not resumed yet
Settled(c) == c.pc \in {"resolved", "rejected"}

\* a step takes the awaiting call c out of its await only by settling its promise
LeavesAwaitBySettling(c) ==
  CopiesIn(c, calls') < CopiesIn(c, calls) =>
    \E d \in BagToSet(calls') :
      /\ Settled(d)
      /\ d.settled.kind # "none"
      /\ d.outcome = "pending"
      /\ d = [c EXCEPT !.pc = d.pc, !.settled = d.settled]

\* C13: an operation suspends at its enqueue call and nowhere else. Once that
\* call has settled, with a response or with an error, the operation goes on
\* to complete with a result. While it has not settled the operation stays
\* suspended, its promise pending: nothing but the settling of the enqueue
\* call, no timeout and no cancellation, takes it out of its await.
C13_CompletesWhenEnqueueSettles ==
  /\ \A op \in Operations, b \in BuilderIds :
       (\E c \in Calls : c.op = op /\ c.builder = b /\ Settled(c))
         ~> (\E c \in Calls : c.op = op /\ c.builder = b /\ c.pc = "returned"
                               /\ c.outcome # "pending" /\ c.result # NoResult)
  /\ [](\A c \in Calls :
          /\ c.pc \in {"awaiting", "resolved", "rejected", "returned"}
          /\ c.pc = "awaiting" => c.settled.kind = "none"
          /\ c.pc # "returned" => c.outcome = "pending" /\ Len(c.enqueued) = 1
          /\ c.pc = "returned" => c.settled.kind # "none" \/ c.enqueued = <<>>)
  /\ [][\A c \in Calls : c.pc = "awaiting" => LeavesAwaitBySettling(c)]_vars

\* changeDeliveryStatus has completed with the name of its task after its
\* enqueue call settled with a response
C13_Witness ==
  \E c \in Calls :
    /\ c.op = "changeDeliveryStatus"
    /\ c.pc = "returned"
    /\ c.settled.kind = "response"
    /\ c.outcome = "fulfilled"
    /\ c.result.v = c.settled.v

\* C14: on one builder the eight operations submit to queues that differ from
\* one another and to urls that differ from one another: two calls of
\* different operations never have the same queue path or the same url, also
\* insertToDeliveryTracking and forwardingWebhook, which take the same payload.
C14_DistinctQueuesAndUrls ==
  \A c, d \in Calls :
    (c.builder = d.builder /\ c.op # d.op
       /\ c.enqueued # <<>> /\ d.enqueued # <<>>) =>
      /\ c.enqueued[1].parent # d.enqueued[1].parent
      /\ c.enqueued[1].task.httpRequest.url # d.enqueued[1].task.httpRequest.url

\* insertToDeliveryTracking and forwardingWebhook called on one builder with
\* the same payload: the same body goes to two queues and two urls
C14_Witness ==
  \E c, d \in Calls :
    /\ c.op = "insertToDeliveryTracking" /\ d.op = "forwardingWebhook"
    /\ c.builder = d.builder /\ c.payload = d.payload
    /\ c.pc = "awaiting" /\ d.pc = "awaiting"
    /\ c.enqueued[1].task.httpRequest.body = d.enqueued[1].task.httpRequest.body
    /\ c.enqueued[1].parent # d.enqueued[1].parent

\* C15: when the enqueue call of an operation fails, the operation logs the
\* error once, before it returns, under the label of the operation that
\* failed, "Error <operation>: "; when it succeeds the operation logs the name
\* of the created task and no error; before the call settles nothing is logged.
C15_ErrorLoggedOnceWithOwnLabel ==
  \A c \in Calls :
    /\ c.pc # "returned" => c.log = <<>>
    /\ (c.pc = "returned" /\ c.settled.kind = "error") =>
         c.log = <<[text |-> "Error " \o c.op \o ": ", error |-> c.settled.v]>>
    /\ (c.pc = "returned" /\ c.settled.kind = "response") =>
         c.log = <<[text |-> "Created task " \o c.settled.v, error |-> ""]>>

=============================================================================
